---- MODULE Spec2Model ----
(***************************************************************************)
(* The Python binding of cuTT (src/src/python/cutt.cpp): the class cuTT    *)
(* that owns one cuttHandle, its two constructors, execute() and the       *)
(* destructor, the process-wide std::once_flag cuttInitialized, and        *)
(* cuttErrorString.  The native engine (cuttInitialize, cuttPlan,          *)
(* cuttPlanMeasure, cuttExecute, cuttDestroy) is seen through the calls    *)
(* the binding makes, which are recorded per manager in `calls`.           *)
(***************************************************************************)
EXTENDS Integers, Sequences, FiniteSets, TLC

\* ------------------------------------------------------------------ bounds
\* Number of cuTT objects the process constructs (also the number of
\* constructing threads of SpecInit).
MaxManagers == 2
\* Number of cuttExecute calls one manager may make.
MaxExecutes == 2

\* Largest rank of the requests of SpecCreate.
MaxRank == 3

Mgr == 1..MaxManagers

\* ------------------------------------------------------ Python-side values
\* A Python object as the binding sees it: its type, and the attributes the
\* binding reads (dtype / itemsize / ptr of an array, handle_int of a stream,
\* the value of a float).
PyObj(t, d, w, v) == [type |-> t, dtype |-> d, itemsize |-> w, val |-> v]

PyNone == PyObj("NoneType", "", 0, 0)
PyStream == PyObj("Stream", "", 0, 7)
PyInt == PyObj("int", "", 0, 5)
PyFloat(v) == PyObj("float", "", 0, v)
GPUArray(d, w, p) == PyObj("GPUArray", d, w, p)

\* The objects pycuda's attributes resolve to.  pycuda.gpuarray is a module,
\* pycuda.gpuarray.GPUArray and pycuda.driver.Stream are classes.
PycudaGpuarray == [kind |-> "module", name |-> "gpuarray"]
PycudaGPUArray == [kind |-> "class", name |-> "GPUArray"]
PycudaStream == [kind |-> "class", name |-> "Stream"]

\* py::isinstance(obj, cls) is PyObject_IsInstance: "true" / "false", and
\* "TypeError" (rethrown as error_already_set) when cls is not a class.
py_isinstance(obj, cls) ==
  IF cls.kind # "class" THEN "TypeError"
  ELSE IF obj.type = cls.name THEN "true" ELSE "false"

\* py::str(obj), kept as the name of the object's type.
py_str(obj) == obj.type

\* ------------------------------------------------------------ result codes
CUTT_SUCCESS == "CUTT_SUCCESS"
CUTT_INVALID_PLAN == "CUTT_INVALID_PLAN"
CUTT_INVALID_PARAMETER == "CUTT_INVALID_PARAMETER"
CUTT_INVALID_DEVICE == "CUTT_INVALID_DEVICE"
CUTT_INTERNAL_ERROR == "CUTT_INTERNAL_ERROR"
CUTT_UNDEFINED_ERROR == "CUTT_UNDEFINED_ERROR"
\* Any value of type cuttResult that is none of the six enumerators.
CUTT_OUT_OF_RANGE == "CUTT_OUT_OF_RANGE"

cuttResult ==
  { CUTT_SUCCESS, CUTT_INVALID_PLAN, CUTT_INVALID_PARAMETER, CUTT_INVALID_DEVICE,
    CUTT_INTERNAL_ERROR, CUTT_UNDEFINED_ERROR, CUTT_OUT_OF_RANGE }

\* A mapper that has one text for every code.
cuttErrorStringFlat(result) == "Unknown error"

cuttErrorString(result) ==
  CASE result = CUTT_SUCCESS -> "Success"
    [] result = CUTT_INVALID_PLAN -> "Invalid plan handle"
    [] result = CUTT_INVALID_PARAMETER -> "Invalid input parameter"
    [] result = CUTT_INVALID_DEVICE ->
         "Execution tried on device different than where plan was created"
    [] result = CUTT_INTERNAL_ERROR -> "Internal error"
    [] result = CUTT_UNDEFINED_ERROR -> "Undefined error"
    [] OTHER -> "Unknown error"

\* ------------------------------------------------------------------- state
VARIABLES
  cuttInitialized,  \* the once_flag: "idle", "running" or "done"
  initCalls,        \* number of cuttInitialize() invocations
  pc,               \* where each thread is (SpecInit: in a constructor,
                    \* SpecRace: in execute())
  nextHandle,       \* the engine's next plan handle
  life,             \* per manager: "none", "live", "dead", "failed"
  rank, dim, permutation, stream,
  plan, initStatus, planInitialized,
  calls,            \* per manager: the engine calls it made, in order
  ret               \* the last call of the binding that ended, and how

vars ==
  << cuttInitialized, initCalls, pc, nextHandle, life, rank, dim, permutation,
     stream, plan, initStatus, planInitialized, calls, ret >>

\* A member holds <<v>> once v was written to it, and <<>> (nothing that can
\* be relied on) before.
Indeterminate == <<>>
Written(v) == <<v>>

\* The values a cuttHandle can be read as.
HandleValues == 0..MaxManagers

\* Reading a member: the value written, or any value when none was.
ReadMember(x, values) == IF x = Indeterminate THEN values ELSE {x[1]}

\* How a call of the binding ends: it returns, or throws the exception k
\* whose what() is the concatenation of t.
Ok == [kind |-> "ok", text |-> <<>>]
Throw(k, t) == [kind |-> k, text |-> t]
Outcome(op, m, r) == [op |-> op, mgr |-> m, kind |-> r.kind, text |-> r.text]

\* ------------------------------------------------------------------ engine
\* One call into the native engine, as the engine observes it.  A NULL
\* coefficient pointer is <<>>, a pointer to the double v is <<v>>.
EngineCall(op, h, w, i, o, a, b, s) ==
  [op |-> op, handle |-> h, width |-> w, in |-> i, out |-> o,
   alpha |-> a, beta |-> b, status |-> s]

\* The result codes the engine answers a call with in the runs explored.
EngineResults ==
  {CUTT_SUCCESS, CUTT_INVALID_PARAMETER, CUTT_INVALID_DEVICE, CUTT_OUT_OF_RANGE}

\* What cuttPlan / cuttPlanMeasure leave in *handle: the new handle on
\* success, nothing that can be relied on otherwise.
PlannedHandle(status) ==
  IF status = CUTT_SUCCESS THEN Written(nextHandle) ELSE Indeterminate

NextHandleAfter(status) == IF status = CUTT_SUCCESS THEN nextHandle + 1 ELSE nextHandle

NumCalls(log, op) == Cardinality({i \in 1..Len(log) : log[i].op = op})

\* ------------------------------------------------------------ the binding
\* std::call_once(cuttInitialized, [](){ cuttInitialize(); }) run to
\* completion by one thread, no other thread being inside it.
CallOnce ==
  /\ cuttInitialized' = "done"
  /\ initCalls' = IF cuttInitialized = "idle" THEN initCalls + 1 ELSE initCalls

\* A binding that takes any object for a device array.
CheckArrayAny(obj, cls, what) == Ok

\* The isinstance test of a buffer and the exception thrown when it fails.
CheckArray(obj, cls, what) ==
  LET r == py_isinstance(obj, cls) IN
  IF r = "TypeError"
    THEN Throw("TypeError", <<"isinstance() arg 2 must be a type, a tuple of types, or a union">>)
    ELSE IF r = "false" THEN Throw("invalid_argument", <<what, py_str(obj)>>) ELSE Ok

\* The stream argument: none is stream 0, a pycuda.driver.Stream its
\* handle_int, anything else is rejected.
BindStream(stream_) ==
  IF stream_.type = "NoneType" THEN [err |-> Ok, stream |-> 0]
  ELSE IF py_isinstance(stream_, PycudaStream) # "true"
    THEN [err |-> Throw("invalid_argument",
                        <<"Stream argument must be a pycuda.driver.stream, got: ",
                          py_str(stream_)>>),
          stream |-> 0]
    ELSE [err |-> Ok, stream |-> stream_.val]

\* A binding that takes any two dtypes for the same one.
DtypeIsAny(idata, odata) == TRUE

\* idata.dtype.is(odata.dtype)
DtypeIs(idata, odata) == idata.dtype = odata.dtype

\* A constructor whose object is there, to be executed and released, after
\* it has thrown.
CtorThrowsKeepsObject(m, exc) ==
  /\ life' = [life EXCEPT ![m] = "live"]
  /\ ret' = Outcome("construct", m, exc)
  /\ UNCHANGED <<nextHandle, rank, dim, permutation, stream, plan, initStatus,
                 planInitialized, calls>>

\* A constructor that throws: no object comes into existence.
CtorThrows(m, exc) ==
  /\ life' = [life EXCEPT ![m] = "failed"]
  /\ ret' = Outcome("construct", m, exc)
  /\ UNCHANGED <<nextHandle, rank, dim, permutation, stream, plan, initStatus,
                 planInitialized, calls>>

\* A constructor that returns: the members as the constructor left them.
CtorReturns(m, rank_, dim_, permutation_, s, pl, st, pi, cl, nh) ==
  /\ life' = [life EXCEPT ![m] = "live"]
  /\ ret' = Outcome("construct", m, Ok)
  /\ rank' = [rank EXCEPT ![m] = rank_]
  /\ dim' = [dim EXCEPT ![m] = dim_]
  /\ permutation' = [permutation EXCEPT ![m] = permutation_]
  /\ stream' = [stream EXCEPT ![m] = s]
  /\ plan' = [plan EXCEPT ![m] = pl]
  /\ initStatus' = [initStatus EXCEPT ![m] = st]
  /\ planInitialized' = [planInitialized EXCEPT ![m] = pi]
  /\ calls' = [calls EXCEPT ![m] = cl]
  /\ nextHandle' = nh

\* A constructor that plans for 4-byte elements as soon as it is called.
CtorBodyEager(m, rank_, dim_, permutation_, stream_) ==
  \E status \in EngineResults :
    CtorReturns(m, rank_, dim_, permutation_, 0,
                PlannedHandle(status), Written(status), TRUE,
                <<EngineCall("plan", PlannedHandle(status), 4, 0, 0, <<>>, <<>>, status)>>,
                NextHandleAfter(status))

\* cuTT(rank, dim, permutation, stream) after the call_once.
CtorBody(m, rank_, dim_, permutation_, stream_) ==
  LET b == BindStream(stream_) IN
  IF b.err # Ok THEN CtorThrows(m, b.err)
  ELSE CtorReturns(m, rank_, dim_, permutation_, b.stream,
                   Indeterminate, Indeterminate, FALSE, <<>>, nextHandle)

\* cuTT(rank, dim, permutation, stream, idata, odata, alpha, beta) after the
\* call_once.  The buffers are tested against pycuda.gpuarray; status is the
\* engine's answer to cuttPlanMeasure.
MeasuredCtorBody(m, rank_, dim_, permutation_, stream_, idata, odata, alpha, beta) ==
  LET ci == CheckArray(idata, PycudaGpuarray, "Input array must be a pycuda.gpuarray, got: ")
      co == CheckArray(odata, PycudaGpuarray, "Output array must be a pycuda.gpuarray, got: ")
      b == BindStream(stream_)
  IN
  IF ci # Ok THEN CtorThrows(m, ci)
  ELSE IF co # Ok THEN CtorThrows(m, co)
  ELSE IF b.err # Ok THEN CtorThrows(m, b.err)
  ELSE IF ~DtypeIs(idata, odata)
    THEN CtorThrows(m, Throw("invalid_argument",
                             <<"Input and output array must have the same type">>))
  ELSE \E status \in EngineResults :
         CtorReturns(m, rank_, dim_, permutation_, b.stream,
                     PlannedHandle(status), Written(status), TRUE,
                     <<EngineCall("planMeasure", PlannedHandle(status), idata.itemsize,
                                  idata.val, odata.val, alpha, beta, status)>>,
                     NextHandleAfter(status))

Create(m, rank_, dim_, permutation_, stream_) ==
  /\ life[m] = "none"
  /\ pc[m] = "none"
  /\ CallOnce
  /\ CtorBody(m, rank_, dim_, permutation_, stream_)
  /\ UNCHANGED pc

CreateMeasured(m, rank_, dim_, permutation_, stream_, idata, odata, alpha, beta) ==
  /\ life[m] = "none"
  /\ pc[m] = "none"
  /\ CallOnce
  /\ MeasuredCtorBody(m, rank_, dim_, permutation_, stream_, idata, odata, alpha, beta)
  /\ UNCHANGED pc

\* A manager is Resolved once planInitialized is set, Unresolved before.
Resolved(m) == life[m] = "live" /\ planInitialized[m]
Unresolved(m) == life[m] = "live" /\ ~planInitialized[m]

\* A binding that plans whenever execute() is called.
NeedsPlanAlways(m) == TRUE

\* A binding that never plans.
NeedsPlanNever(m) == FALSE

\* A binding that plans again when the plan it has failed.
NeedsPlanAfterFailure(m) == ~planInitialized[m] \/ initStatus[m] # Written(CUTT_SUCCESS)

\* if (!planInitialized)
NeedsPlan(m) == ~planInitialized[m]

\* A binding that never looks at initStatus.
PlanFailedNever(status) == FALSE

\* if (initStatus != CUTT_SUCCESS)
PlanFailed(status) == status # CUTT_SUCCESS

\* if (status != CUTT_SUCCESS)
ExecuteFailed(status) == status # CUTT_SUCCESS

\* A binding that throws without the text of the result code.
CuttErrorBare(status) == Throw("invalid_argument", <<"cuTT error: ">>)

\* The exception execute() throws for a result code.
CuttError(status) == Throw("invalid_argument", <<"cuTT error: ", cuttErrorString(status)>>)

\* A double is kept as the number of halves it holds: 2.0 is 4, 0.5 is 1.
\* obj.cast<double>(): a float gives its value, an int the double of the
\* same value, any other object makes the cast throw.
cast_double(py) ==
  IF py.type = "float" THEN [ok |-> TRUE, val |-> py.val]
  ELSE IF py.type = "int" THEN [ok |-> TRUE, val |-> py.val + py.val]
  ELSE [ok |-> FALSE, val |-> 0]

\* The exception of a cast that fails.
CastError == Throw("cast_error", <<"Unable to cast Python instance to C++ type">>)

\* if (!pyalpha.is_none()) valpha = pyalpha.cast<double>() throws.
CastThrows(py) == py.type # "NoneType" /\ ~cast_double(py).ok

\* A binding that hands no coefficient on.
CoefficientPtrNull(py) == <<>>

\* pyalpha / pybeta to the pointer handed to cuttExecute: NULL for None,
\* else the address of the double the object casts to.
CoefficientPtr(py) == IF py.type = "NoneType" THEN <<>> ELSE <<cast_double(py).val>>

\* execute() leaves: the members it wrote and what it returned or threw.
ExecuteLeaves(m, pl, st, pi, cl, nh, r) ==
  /\ plan' = [plan EXCEPT ![m] = pl]
  /\ initStatus' = [initStatus EXCEPT ![m] = st]
  /\ planInitialized' = [planInitialized EXCEPT ![m] = pi]
  /\ calls' = [calls EXCEPT ![m] = cl]
  /\ nextHandle' = nh
  /\ ret' = Outcome("execute", m, r)

\* execute() throws before it touched a member or the engine.
ExecuteRejects(m, exc) ==
  ExecuteLeaves(m, plan[m], initStatus[m], planInitialized[m], calls[m], nextHandle, exc)

\* execute() from `if (initStatus != CUTT_SUCCESS)` on: pl, st, pi, cl, nh are
\* plan, initStatus, planInitialized, the engine calls made and the engine's
\* next handle at that point; status is the engine's answer to cuttExecute.
ExecutePlanned(m, idata, odata, pyalpha, pybeta, pl, st, pi, cl, nh) ==
  \E read \in ReadMember(st, cuttResult) :
    IF PlanFailed(read)
      THEN ExecuteLeaves(m, pl, st, pi, cl, nh, CuttError(read))
      ELSE IF CastThrows(pyalpha) \/ CastThrows(pybeta)
        THEN ExecuteLeaves(m, pl, st, pi, cl, nh, CastError)
      ELSE \E h \in ReadMember(pl, HandleValues), status \in EngineResults :
             /\ NumCalls(calls[m], "execute") < MaxExecutes
             /\ ExecuteLeaves(m, pl, st, pi,
                              Append(cl, EngineCall("execute", Written(h), 0, idata.val,
                                                    odata.val, CoefficientPtr(pyalpha),
                                                    CoefficientPtr(pybeta), status)),
                              nh,
                              IF ExecuteFailed(status) THEN CuttError(status) ELSE Ok)

\* execute() from `if (!planInitialized)` on, the buffers having passed;
\* planStatus is the engine's answer to cuttPlan.
ExecuteChecked(m, idata, odata, pyalpha, pybeta) ==
  LET sizeofType == idata.itemsize IN
  IF NeedsPlan(m)
    THEN \E planStatus \in EngineResults :
           ExecutePlanned(m, idata, odata, pyalpha, pybeta,
                          PlannedHandle(planStatus), Written(planStatus), TRUE,
                          Append(calls[m],
                                 EngineCall("plan", PlannedHandle(planStatus), sizeofType,
                                            0, 0, <<>>, <<>>, planStatus)),
                          NextHandleAfter(planStatus))
    ELSE ExecutePlanned(m, idata, odata, pyalpha, pybeta,
                        plan[m], initStatus[m], planInitialized[m], calls[m], nextHandle)

\* cuTT::execute(idata, odata, pyalpha, pybeta)
Execute(m, idata, odata, pyalpha, pybeta) ==
  /\ life[m] = "live"
  /\ UNCHANGED <<cuttInitialized, initCalls, pc, life, rank, dim, permutation, stream>>
  /\ LET ci == CheckArray(idata, PycudaGPUArray, "Input array must be a pycuda.gpuarray, got: ")
         co == CheckArray(odata, PycudaGPUArray, "Output array must be a pycuda.gpuarray, got: ")
     IN
     IF ci # Ok THEN ExecuteRejects(m, ci)
     ELSE IF co # Ok THEN ExecuteRejects(m, co)
     ELSE IF ~DtypeIs(idata, odata)
       THEN ExecuteRejects(m, Throw("invalid_argument",
                                    <<"Input and output array must have the same type, got: ",
                                      idata.dtype, " and ", odata.dtype>>))
     ELSE ExecuteChecked(m, idata, odata, pyalpha, pybeta)

\* A destructor that releases the handle twice.
DestructorCallsTwice(h) ==
  <<EngineCall("destroy", Written(h), 0, 0, 0, <<>>, <<>>, CUTT_SUCCESS),
    EngineCall("destroy", Written(h), 0, 0, 0, <<>>, <<>>, CUTT_SUCCESS)>>

\* The calls ~cuTT() makes on the engine, h being what it reads from plan.
DestructorCalls(h) ==
  <<EngineCall("destroy", Written(h), 0, 0, 0, <<>>, <<>>, CUTT_SUCCESS)>>

\* ~cuTT(), run once, when the Python object is released.
Dispose(m) ==
  /\ life[m] = "live"
  /\ \E h \in ReadMember(plan[m], HandleValues) :
       calls' = [calls EXCEPT ![m] = calls[m] \o DestructorCalls(h)]
  /\ life' = [life EXCEPT ![m] = "dead"]
  /\ ret' = Outcome("dispose", m, Ok)
  /\ UNCHANGED <<cuttInitialized, initCalls, pc, nextHandle, rank, dim, permutation,
                 stream, plan, initStatus, planInitialized>>

\* ------------------------------------------------------------------ inputs
\* Requests: a transpose of a 4 x 6 tensor, and the same with rank 0, with
\* one dimension missing, with a permutation that is too short, that repeats
\* an axis, and that names an axis out of range.
Request(r, d, p) == [rank |-> r, dim |-> d, permutation |-> p]
RequestInputs ==
  { Request(2, <<4, 6>>, <<1, 0>>), Request(0, <<4, 6>>, <<1, 0>>),
    Request(2, <<4>>, <<1, 0>>), Request(2, <<4, 6>>, <<0>>),
    Request(2, <<4, 6>>, <<0, 0>>), Request(2, <<4, 6>>, <<0, 2>>) }
StreamInputs == {PyNone, PyStream, PyInt}
InputBuffers == {GPUArray("float32", 4, 1), GPUArray("float64", 8, 3), PyInt}
OutputBuffers == {GPUArray("float32", 4, 2), GPUArray("float64", 8, 4), PyInt}
Coefficients == {PyNone}
CoefficientPtrs == {<<>>}

\* ----------------------------------------------------------- specification
Init ==
  /\ cuttInitialized = "idle"
  /\ initCalls = 0
  /\ pc = [m \in Mgr |-> "none"]
  /\ nextHandle = 1
  /\ life = [m \in Mgr |-> "none"]
  /\ rank = [m \in Mgr |-> 0]
  /\ dim = [m \in Mgr |-> <<>>]
  /\ permutation = [m \in Mgr |-> <<>>]
  /\ stream = [m \in Mgr |-> 0]
  /\ plan = [m \in Mgr |-> Indeterminate]
  /\ initStatus = [m \in Mgr |-> Indeterminate]
  /\ planInitialized = [m \in Mgr |-> FALSE]
  /\ calls = [m \in Mgr |-> <<>>]
  /\ ret = Outcome("none", 0, Ok)

\* The manager whose whole life Spec follows.
First == CHOOSE m \in Mgr : \A n \in Mgr : m <= n

\* One manager, from its construction to its release, under every input.
Next ==
  \/ \E q \in RequestInputs, s \in StreamInputs :
       Create(First, q.rank, q.dim, q.permutation, s)
  \/ \E q \in RequestInputs, s \in StreamInputs, i \in InputBuffers, o \in OutputBuffers,
        a \in CoefficientPtrs, b \in CoefficientPtrs :
       CreateMeasured(First, q.rank, q.dim, q.permutation, s, i, o, a, b)
  \/ \E i \in InputBuffers, o \in OutputBuffers, a \in Coefficients, b \in Coefficients :
       Execute(First, i, o, a, b)
  \/ Dispose(First)

Spec == Init /\ [][Next]_vars

\* ------------------------------------------- construction by several threads
\* SpecInit: every manager of Mgr is constructed by a thread of its own, the
\* constructors interleaving at the steps of std::call_once; each manager
\* that exists is followed up to its first execute, the one that plans.

\* A bare flag, set only after the callable has returned.
OnceActiveBare == "idle"

\* The state of the once_flag while the thread that won it runs the callable.
OnceActive == "running"

\* call_once finds the flag idle: this thread takes it and will run the callable.
CallOnceEnter(t) ==
  /\ pc[t] = "none"
  /\ life[t] = "none"
  /\ cuttInitialized = "idle"
  /\ cuttInitialized' = OnceActive
  /\ pc' = [pc EXCEPT ![t] = "calling"]
  /\ UNCHANGED <<initCalls, nextHandle, life, rank, dim, permutation, stream, plan,
                 initStatus, planInitialized, calls, ret>>

\* The callable: cuttInitialize().
CuttInitializeRuns(t) ==
  /\ pc[t] = "calling"
  /\ initCalls' = initCalls + 1
  /\ pc' = [pc EXCEPT ![t] = "called"]
  /\ UNCHANGED <<cuttInitialized, nextHandle, life, rank, dim, permutation, stream, plan,
                 initStatus, planInitialized, calls, ret>>

\* The callable has returned: the flag is set and call_once returns.
CallOnceReturn(t) ==
  /\ pc[t] = "called"
  /\ cuttInitialized' = "done"
  /\ pc' = [pc EXCEPT ![t] = "body"]
  /\ UNCHANGED <<initCalls, nextHandle, life, rank, dim, permutation, stream, plan,
                 initStatus, planInitialized, calls, ret>>

\* call_once finds the flag set and returns at once.  (A thread that finds
\* another one running the callable blocks: it has no step.)
CallOnceSkip(t) ==
  /\ pc[t] = "none"
  /\ life[t] = "none"
  /\ cuttInitialized = "done"
  /\ pc' = [pc EXCEPT ![t] = "body"]
  /\ UNCHANGED <<cuttInitialized, initCalls, nextHandle, life, rank, dim, permutation,
                 stream, plan, initStatus, planInitialized, calls, ret>>

\* The rest of the first constructor.
ConstructDeferred(t, rank_, dim_, permutation_, stream_) ==
  /\ pc[t] = "body"
  /\ pc' = [pc EXCEPT ![t] = "done"]
  /\ CtorBody(t, rank_, dim_, permutation_, stream_)
  /\ UNCHANGED <<cuttInitialized, initCalls>>

\* The rest of the second constructor.
ConstructMeasured(t, rank_, dim_, permutation_, stream_, idata, odata, alpha, beta) ==
  /\ pc[t] = "body"
  /\ pc' = [pc EXCEPT ![t] = "done"]
  /\ MeasuredCtorBody(t, rank_, dim_, permutation_, stream_, idata, odata, alpha, beta)
  /\ UNCHANGED <<cuttInitialized, initCalls>>

InitStreamInputs == {PyNone, PyInt}

NextInit ==
  \/ \E t \in Mgr : CallOnceEnter(t)
  \/ \E t \in Mgr : CuttInitializeRuns(t)
  \/ \E t \in Mgr : CallOnceReturn(t)
  \/ \E t \in Mgr : CallOnceSkip(t)
  \/ \E t \in Mgr, s \in InitStreamInputs : ConstructDeferred(t, 2, <<4, 6>>, <<1, 0>>, s)
  \/ \E t \in Mgr, s \in InitStreamInputs :
       ConstructMeasured(t, 2, <<4, 6>>, <<1, 0>>, s, GPUArray("float32", 4, 1),
                         GPUArray("float32", 4, 2), <<>>, <<>>)
  \/ \E m \in Mgr :
       /\ Unresolved(m)
       /\ Execute(m, GPUArray("float32", 4, 1), GPUArray("float32", 4, 2), PyNone, PyNone)

SpecInit == Init /\ [][NextInit]_vars

\* ------------------------------------------------ execute as Python calls it
\* SpecCoeff: one manager made by the first constructor, executed on one
\* valid buffer pair with every way of giving, or not giving, alpha and beta.

PyStr == PyObj("str", "", 0, 0)

\* An argument the caller left out.
Omitted == PyObj("omitted", "", 0, 0)

\* py::arg("pyalpha") = py::none(), py::arg("pybeta") = py::none()
ArgOrNone(arg) == IF arg = Omitted THEN PyNone ELSE arg

\* m.execute(idata, odata[, pyalpha[, pybeta]]) as bound by .def("execute", ...)
PyExecute(m, idata, odata, alpha_, beta_) ==
  Execute(m, idata, odata, ArgOrNone(alpha_), ArgOrNone(beta_))

\* 2.0, the int 5 and a string for alpha; None and 0.5 for beta.
AlphaInputs == {Omitted, PyFloat(4), PyInt, PyStr}
BetaInputs == {Omitted, PyNone, PyFloat(1)}

NextCoeff ==
  \/ Create(First, 2, <<4, 6>>, <<1, 0>>, PyNone)
  \/ \E a \in AlphaInputs, b \in BetaInputs :
       PyExecute(First, GPUArray("float32", 4, 1), GPUArray("float32", 4, 2), a, b)

SpecCoeff == Init /\ [][NextCoeff]_vars

\* ------------------------------------------------- every well-formed request
\* SpecCreate: the first constructor on every request of rank 1..MaxRank
\* whose permutation is a bijection, with and without a stream, then the
\* release of the manager.

\* The permutations of 0..r-1, as vectors.
Bijections(r) == {p \in [1..r -> 0..(r - 1)] : {p[k] : k \in 1..r} = 0..(r - 1)}

DimValues == {4, 6}

WellFormedRequests ==
  UNION { { Request(r, d, p) : d \in [1..r -> DimValues], p \in Bijections(r) } :
          r \in 1..MaxRank }

NextCreate ==
  \/ \E q \in WellFormedRequests, s \in {PyNone, PyStream} :
       Create(First, q.rank, q.dim, q.permutation, s)
  \/ Dispose(First)

SpecCreate == Init /\ [][NextCreate]_vars

\* ------------------------------------------------- the texts of the codes
\* SpecDescribe: cuttErrorString applied to every value of cuttResult, by
\* itself and by execute() on the managers whose cuttPlan has failed, the
\* engine having answered the cuttPlan of each manager with any of these
\* values.

\* The number of managers up to m that planned with success, the managers
\* having planned in the order of Mgr.
PlannedUpTo(codes, m) == Cardinality({n \in 1..m : codes[n] = CUTT_SUCCESS})

InitDescribe ==
  \E codes \in [Mgr -> cuttResult] :
    /\ cuttInitialized = "done"
    /\ initCalls = 1
    /\ pc = [m \in Mgr |-> "none"]
    /\ nextHandle = PlannedUpTo(codes, MaxManagers) + 1
    /\ life = [m \in Mgr |-> "live"]
    /\ rank = [m \in Mgr |-> 2]
    /\ dim = [m \in Mgr |-> <<4, 6>>]
    /\ permutation = [m \in Mgr |-> <<1, 0>>]
    /\ stream = [m \in Mgr |-> 0]
    /\ plan = [m \in Mgr |-> IF codes[m] = CUTT_SUCCESS
                               THEN Written(PlannedUpTo(codes, m)) ELSE Indeterminate]
    /\ initStatus = [m \in Mgr |-> Written(codes[m])]
    /\ planInitialized = [m \in Mgr |-> TRUE]
    /\ calls = [m \in Mgr |->
                 <<EngineCall("plan",
                              IF codes[m] = CUTT_SUCCESS
                                THEN Written(PlannedUpTo(codes, m)) ELSE Indeterminate,
                              4, 0, 0, <<>>, <<>>, codes[m])>>]
    /\ ret = Outcome("none", 0, Ok)

\* cuttErrorString(code), called by itself: it returns a text.
Describe(code) ==
  /\ ret' = Outcome("cuttErrorString", 0, [kind |-> "ok", text |-> <<cuttErrorString(code)>>])
  /\ UNCHANGED <<cuttInitialized, initCalls, pc, nextHandle, life, rank, dim, permutation,
                 stream, plan, initStatus, planInitialized, calls>>

NextDescribe ==
  \/ \E code \in cuttResult : Describe(code)
  \/ \E m \in Mgr :
       /\ initStatus[m] # Written(CUTT_SUCCESS)
       /\ Execute(m, GPUArray("float32", 4, 1), GPUArray("float32", 4, 2), PyNone, PyNone)

SpecDescribe == InitDescribe /\ [][NextDescribe]_vars

\* --------------------------------------------- execute by several threads
\* SpecRace: the threads of Mgr call execute() on one manager, each with the
\* same valid buffer pair and no coefficients, and with nothing of their own
\* to keep them apart.  execute() is entered from Python through pybind11,
\* which runs a bound function with the interpreter lock held: another
\* thread gets to run only where execute() calls back into Python, in the
\* attribute reads before `if (!planInitialized)` and in the casts of the
\* coefficients before cuttExecute.  pc[t] is where thread t is: "none"
\* outside execute(), "checked" before `if (!planInitialized)`, "planned"
\* before cuttExecute.

\* A binding that gives the interpreter lock up between the test of
\* planInitialized and the call of cuttPlan.
PlanOutsideLock == FALSE

\* From `if (!planInitialized)` to `planInitialized = true` execute() calls
\* nothing of Python and the binding has no gil_scoped_release: the lock is
\* held throughout.
PlanUnderLock == TRUE

\* Lines 148-181: the lookups, the tests of the buffers, which pass, and the
\* reads of ptr and itemsize.
RaceEnter(t) ==
  /\ pc[t] = "none"
  /\ life[First] = "live"
  /\ NumCalls(calls[First], "execute") < MaxExecutes
  /\ CheckArray(GPUArray("float32", 4, 1), PycudaGPUArray, "") = Ok
  /\ CheckArray(GPUArray("float32", 4, 2), PycudaGPUArray, "") = Ok
  /\ pc' = [pc EXCEPT ![t] = "checked"]
  /\ UNCHANGED <<cuttInitialized, initCalls, nextHandle, life, rank, dim, permutation,
                 stream, plan, initStatus, planInitialized, calls, ret>>

\* if (initStatus != CUTT_SUCCESS) throw ...; read is what initStatus is
\* read as.
RaceStatusCheck(t, m, read) ==
  IF PlanFailed(read)
    THEN /\ pc' = [pc EXCEPT ![t] = "none"]
         /\ ret' = Outcome("execute", m, CuttError(read))
    ELSE /\ pc' = [pc EXCEPT ![t] = "planned"]
         /\ UNCHANGED ret

\* Lines 183-197: the test of planInitialized, cuttPlan and the write of
\* planInitialized, then the test of initStatus.  A thread at "tested" has
\* found planInitialized false and lost the lock before cuttPlan.
RacePlan(t) ==
  LET m == First IN
  /\ pc[t] \in {"checked", "tested"}
  /\ UNCHANGED <<cuttInitialized, initCalls, life, rank, dim, permutation, stream>>
  /\ IF pc[t] = "checked" /\ NeedsPlan(m) /\ ~PlanUnderLock
       THEN /\ pc' = [pc EXCEPT ![t] = "tested"]
            /\ UNCHANGED <<nextHandle, plan, initStatus, planInitialized, calls, ret>>
     ELSE IF pc[t] = "tested" \/ NeedsPlan(m)
       THEN \E planStatus \in EngineResults :
              /\ plan' = [plan EXCEPT ![m] = PlannedHandle(planStatus)]
              /\ initStatus' = [initStatus EXCEPT ![m] = Written(planStatus)]
              /\ planInitialized' = [planInitialized EXCEPT ![m] = TRUE]
              /\ calls' = [calls EXCEPT ![m] =
                             Append(calls[m],
                                    EngineCall("plan", PlannedHandle(planStatus), 4, 0, 0,
                                               <<>>, <<>>, planStatus))]
              /\ nextHandle' = NextHandleAfter(planStatus)
              /\ RaceStatusCheck(t, m, planStatus)
     ELSE \E read \in ReadMember(initStatus[m], cuttResult) :
            /\ UNCHANGED <<nextHandle, plan, initStatus, planInitialized, calls>>
            /\ RaceStatusCheck(t, m, read)

\* Lines 199-218: cuttExecute with the member plan, and the throw when it
\* fails.
RaceExecute(t) ==
  LET m == First IN
  /\ pc[t] = "planned"
  /\ \E h \in ReadMember(plan[m], HandleValues), status \in EngineResults :
       /\ calls' = [calls EXCEPT ![m] =
                      Append(calls[m],
                             EngineCall("execute", Written(h), 0, 1, 2,
                                        CoefficientPtr(PyNone), CoefficientPtr(PyNone), status))]
       /\ ret' = Outcome("execute", m, IF ExecuteFailed(status) THEN CuttError(status) ELSE Ok)
  /\ pc' = [pc EXCEPT ![t] = "none"]
  /\ UNCHANGED <<cuttInitialized, initCalls, nextHandle, life, rank, dim, permutation,
                 stream, plan, initStatus, planInitialized>>

NextRace ==
  \/ Create(First, 2, <<4, 6>>, <<1, 0>>, PyNone)
  \/ \E t \in Mgr : RaceEnter(t)
  \/ \E t \in Mgr : RacePlan(t)
  \/ \E t \in Mgr : RaceExecute(t)

SpecRace == Init /\ [][NextRace]_vars

\* ------------------------------------------------------------------ claims
\* A valid buffer pair is two device arrays of one element type.
ValidPair(i, o) == i.type = "GPUArray" /\ o.type = "GPUArray" /\ i.dtype = o.dtype
IsError(r) == r.kind # "ok"

\* C1: on a manager made by the first constructor, the first execute with a
\* valid buffer pair sets planInitialized and calls cuttPlan once; whatever
\* is called later (other element widths, after failed executes), cuttPlan
\* is not called again: a manager calls it at most once, and has called it
\* exactly when it is resolved.
C1_PlanAtMostOnce ==
  [][\A m \in Mgr :
       /\ NumCalls(calls'[m], "plan") <= 1
       /\ planInitialized'[m] <=> (NumCalls(calls'[m], "plan") = 1)
       /\ planInitialized[m] =>
            /\ planInitialized'[m]
            /\ NumCalls(calls'[m], "plan") = NumCalls(calls[m], "plan")
       /\ \A i \in InputBuffers, o \in OutputBuffers, a \in Coefficients, b \in Coefficients :
            (Unresolved(m) /\ ValidPair(i, o) /\ Execute(m, i, o, a, b)) =>
              /\ planInitialized'[m]
              /\ calls'[m][Len(calls[m]) + 1].op = "plan"
              /\ calls'[m][Len(calls[m]) + 1].width = i.itemsize
    ]_vars

\* A manager planned for 4-byte elements whose first cuttExecute failed and
\* that was executed again on 8-byte buffers, with one cuttPlan in all.
C1_Witness ==
  \E m \in Mgr :
    /\ Resolved(m)
    /\ Len(calls[m]) = 3
    /\ calls[m][1].op = "plan" /\ calls[m][1].width = 4
    /\ calls[m][2].op = "execute" /\ calls[m][2].status # CUTT_SUCCESS
    /\ calls[m][3].op = "execute" /\ calls[m][3].in = 3
    /\ NumCalls(calls[m], "plan") = 1

\* C2: releasing a manager made by the first constructor and never executed
\* makes no cuttDestroy call.
C2_NoDestroyWhenUnresolved ==
  \A m \in Mgr :
    (life[m] = "dead" /\ ~planInitialized[m]) => NumCalls(calls[m], "destroy") = 0

\* The request a TransposeSpec admits: positive rank, dims and permutation of
\* that length, permutation a bijection on 0..rank-1.
ValidSpec(rank_, dim_, permutation_) ==
  /\ rank_ > 0
  /\ Len(dim_) = rank_
  /\ Len(permutation_) = rank_
  /\ {permutation_[k] : k \in 1..Len(permutation_)} = 0..(rank_ - 1)

\* C3: the first constructor, given a request that is no TransposeSpec, throws
\* a parameter error and calls nothing of the engine.
C3_InvalidSpecRejected ==
  [][\A m \in Mgr, q \in RequestInputs, s \in StreamInputs :
       ( /\ ~ValidSpec(q.rank, q.dim, q.permutation)
         /\ Create(m, q.rank, q.dim, q.permutation, s) ) =>
         /\ life'[m] = "failed"
         /\ ret' .kind = "invalid_argument"
         /\ initCalls' = initCalls
         /\ calls' = calls
    ]_vars

\* C4: however the constructors of several threads interleave,
\* cuttInitialize() is invoked at most once, a constructor is past call_once
\* only when that invocation has completed, it has been invoked exactly once
\* when every constructor has ended, and it has completed before any manager
\* calls cuttPlan or cuttPlanMeasure.
C4_InitializeOnce ==
  /\ initCalls <= 1
  /\ \A t \in Mgr :
       pc[t] \in {"body", "done"} => (cuttInitialized = "done" /\ initCalls = 1)
  /\ \A m \in Mgr :
       NumCalls(calls[m], "plan") + NumCalls(calls[m], "planMeasure") > 0 =>
         (cuttInitialized = "done" /\ initCalls = 1)

\* A manager has planned while the constructor of another thread, which did
\* not run cuttInitialize(), is still under way.
C4_Witness ==
  \E t1 \in Mgr, t2 \in Mgr :
    /\ t1 # t2
    /\ life[t1] = "live" /\ NumCalls(calls[t1], "plan") = 1
    /\ pc[t2] = "body"
    /\ initCalls = 1

\* C5: execute on two device arrays of different dtype throws a parameter
\* error, calls neither cuttPlan nor cuttExecute, and leaves the manager as it
\* was, Unresolved or Resolved with the same handle.
C5_DtypeMismatchRejected ==
  [][\A m \in Mgr, i \in InputBuffers, o \in OutputBuffers, a \in Coefficients,
        b \in Coefficients :
       ( /\ i.type = "GPUArray" /\ o.type = "GPUArray" /\ i.dtype # o.dtype
         /\ Execute(m, i, o, a, b) ) =>
         /\ ret' .op = "execute" /\ ret' .mgr = m /\ ret' .kind = "invalid_argument"
         /\ calls' = calls
         /\ planInitialized' = planInitialized
         /\ plan' = plan
         /\ initStatus' = initStatus
         /\ life' = life
    ]_vars

\* A resolved manager that has executed and whose last execute was rejected
\* for the dtypes.
C5_Witness ==
  \E m \in Mgr :
    /\ Resolved(m)
    /\ NumCalls(calls[m], "execute") = 1
    /\ ret.op = "execute" /\ ret.mgr = m /\ ret.kind = "invalid_argument"
    /\ ret.text[1] = "Input and output array must have the same type, got: "

\* The text of an exception contains t.
Contains(r, t) == \E k \in 1..Len(r.text) : r.text[k] = t

\* C6: on a manager resolved with a valid handle, execute with valid buffers
\* calls cuttExecute with that handle and never cuttPlan; when cuttExecute
\* answers a code other than success, execute throws an error that contains
\* the text of that code, and the manager stays resolved with the same handle.
C6_ExecuteErrorKeepsPlan ==
  [][\A m \in Mgr, i \in InputBuffers, o \in OutputBuffers, a \in Coefficients,
        b \in Coefficients :
       ( /\ Resolved(m) /\ initStatus[m] = Written(CUTT_SUCCESS)
         /\ ValidPair(i, o)
         /\ Execute(m, i, o, a, b) ) =>
         LET st == calls'[m][Len(calls'[m])].status IN
         /\ Len(calls'[m]) = Len(calls[m]) + 1
         /\ calls'[m][Len(calls'[m])].op = "execute"
         /\ calls'[m][Len(calls'[m])].handle = plan[m]
         /\ planInitialized'[m] /\ plan'[m] = plan[m] /\ life'[m] = "live"
         /\ (st = CUTT_SUCCESS) => (ret' .kind = "ok")
         /\ (st # CUTT_SUCCESS) =>
              (IsError(ret') /\ ret' .mgr = m /\ Contains(ret', cuttErrorString(st)))
         /\ (st = CUTT_INVALID_DEVICE) =>
              Contains(ret', "Execution tried on device different than where plan was created")
    ]_vars

\* cuttExecute answered CUTT_INVALID_DEVICE, and the next execute reached
\* cuttExecute with the same handle and succeeded.
C6_Witness ==
  \E m \in Mgr :
    /\ Resolved(m)
    /\ Len(calls[m]) = 3
    /\ calls[m][1].op = "plan" /\ calls[m][1].status = CUTT_SUCCESS
    /\ calls[m][2].op = "execute" /\ calls[m][2].status = CUTT_INVALID_DEVICE
    /\ calls[m][3].op = "execute" /\ calls[m][3].status = CUTT_SUCCESS
    /\ calls[m][2].handle = calls[m][1].handle
    /\ calls[m][3].handle = calls[m][1].handle
    /\ ret = Outcome("execute", m, Ok)

C8_NoDestroyAfterFailedPlan ==
  \A m \in Mgr :
    (planInitialized[m] /\ initStatus[m] # Written(CUTT_SUCCESS)) =>
      NumCalls(calls[m], "destroy") = 0

\* C9: a manager calls cuttDestroy at most once and only as its last engine
\* call, nothing happens on a manager once it is released, and a released
\* manager that had planned with success has called cuttDestroy exactly once,
\* with the handle of its plan.
C9_DestroyOnce ==
  [][\A m \in Mgr :
       /\ NumCalls(calls'[m], "destroy") <= 1
       /\ \A k \in 1..Len(calls'[m]) : calls'[m][k].op = "destroy" => k = Len(calls'[m])
       /\ life'[m] = "live" => NumCalls(calls'[m], "destroy") = 0
       /\ life[m] = "dead" => (life'[m] = "dead" /\ calls'[m] = calls[m])
       /\ (life'[m] = "dead" /\ planInitialized'[m] /\ initStatus'[m] = Written(CUTT_SUCCESS)) =>
            /\ NumCalls(calls'[m], "destroy") = 1
            /\ calls'[m][Len(calls'[m])].handle = plan'[m]
            /\ \E k \in 1..Len(calls'[m]) :
                 calls'[m][k].op \in {"plan", "planMeasure"} /\ calls'[m][k].handle = plan'[m]
    ]_vars

\* A manager that planned, executed twice and was released.
C9_Witness ==
  \E m \in Mgr :
    /\ life[m] = "dead"
    /\ Len(calls[m]) = 4
    /\ calls[m][1].op = "plan" /\ calls[m][1].status = CUTT_SUCCESS
    /\ calls[m][2].op = "execute" /\ calls[m][3].op = "execute"
    /\ calls[m][4].op = "destroy" /\ calls[m][4].handle = calls[m][1].handle

\* C10: the second constructor, given two device arrays of one dtype and an
\* acceptable stream, calls cuttPlanMeasure once and returns a resolved
\* manager.
C10_MeasuredResolvesAtConstruction ==
  [][\A m \in Mgr, q \in RequestInputs, s \in StreamInputs, i \in InputBuffers,
        o \in OutputBuffers, a \in CoefficientPtrs, b \in CoefficientPtrs :
       ( /\ ValidPair(i, o) /\ s.type \in {"NoneType", "Stream"}
         /\ CreateMeasured(m, q.rank, q.dim, q.permutation, s, i, o, a, b) ) =>
         /\ life'[m] = "live"
         /\ planInitialized'[m]
         /\ NumCalls(calls'[m], "planMeasure") = 1
         /\ NumCalls(calls'[m], "plan") = 0
    ]_vars

\* The number a Python float or int stands for, in halves.
Halves(py) == IF py.type = "int" THEN 2 * py.val ELSE py.val
Absent(py) == py \in {Omitted, PyNone}

\* C11: when execute reaches cuttExecute, the engine sees alpha and beta as
\* the caller gave them, each on its own: a NULL pointer for a coefficient
\* left out or given as None, else a pointer to the double of the caller's
\* value; alpha = 2.0 with beta = 0.5 is seen as (2.0, 0.5), both non-null.
C11_CoefficientsForwarded ==
  [][\A m \in Mgr, a \in AlphaInputs, b \in BetaInputs :
       ( /\ PyExecute(m, GPUArray("float32", 4, 1), GPUArray("float32", 4, 2), a, b)
         /\ NumCalls(calls'[m], "execute") > NumCalls(calls[m], "execute") ) =>
         LET c == calls'[m][Len(calls'[m])] IN
         /\ c.op = "execute"
         /\ Absent(a) <=> (c.alpha = <<>>)
         /\ Absent(b) <=> (c.beta = <<>>)
         /\ ~Absent(a) => c.alpha = <<Halves(a)>>
         /\ ~Absent(b) => c.beta = <<Halves(b)>>
         /\ (a = PyFloat(4) /\ b = PyFloat(1)) => (c.alpha = <<4>> /\ c.beta = <<1>>)
    ]_vars

\* The manager executed with beta alone, then with alpha = 2.0 and
\* beta = 0.5: the engine saw (NULL, 0.5), then (2.0, 0.5).
C11_Witness ==
  \E m \in Mgr :
    /\ Len(calls[m]) = 3
    /\ calls[m][2].op = "execute" /\ calls[m][2].alpha = <<>> /\ calls[m][2].beta = <<1>>
    /\ calls[m][3].op = "execute" /\ calls[m][3].alpha = <<4>> /\ calls[m][3].beta = <<1>>

\* C12: execute on an input or an output that is no device array throws a
\* parameter error naming that buffer, calls neither cuttPlan nor
\* cuttExecute, and writes no member: an unresolved manager stays unresolved
\* and its next execute is the one that plans.
C12_BadBufferRejected ==
  [][\A m \in Mgr, i \in InputBuffers, o \in OutputBuffers, a \in Coefficients,
        b \in Coefficients :
       ( /\ (i.type # "GPUArray" \/ o.type # "GPUArray")
         /\ Execute(m, i, o, a, b) ) =>
         /\ ret' .op = "execute" /\ ret' .mgr = m /\ ret' .kind = "invalid_argument"
         /\ ret' .text[1] = IF i.type # "GPUArray"
                              THEN "Input array must be a pycuda.gpuarray, got: "
                              ELSE "Output array must be a pycuda.gpuarray, got: "
         /\ calls' = calls
         /\ planInitialized' = planInitialized
         /\ plan' = plan
         /\ initStatus' = initStatus
         /\ Unresolved(m) => (life'[m] = "live" /\ ~planInitialized'[m] /\ NeedsPlan(m)')
    ]_vars

\* An unresolved manager that has called nothing of the engine and whose
\* last execute was rejected for the output buffer.
C12_Witness ==
  \E m \in Mgr :
    /\ Unresolved(m)
    /\ calls[m] = <<>>
    /\ ret.op = "execute" /\ ret.mgr = m /\ ret.kind = "invalid_argument"
    /\ ret.text = <<"Output array must be a pycuda.gpuarray, got: ", "int">>

\* C13: the first constructor, given a rank of at least 1, that many
\* dimensions and a permutation that is a bijection on 0..rank-1, with no
\* stream or a stream object, returns a manager that holds the request and
\* the stream, has called neither cuttPlan nor cuttPlanMeasure, and is
\* unresolved.
C13_CreateLeavesUnresolved ==
  [][\A m \in Mgr, q \in WellFormedRequests, s \in {PyNone, PyStream} :
       ( /\ ValidSpec(q.rank, q.dim, q.permutation)
         /\ Create(m, q.rank, q.dim, q.permutation, s) ) =>
         /\ ret' = Outcome("construct", m, Ok)
         /\ life'[m] = "live"
         /\ rank'[m] = q.rank /\ dim'[m] = q.dim /\ permutation'[m] = q.permutation
         /\ stream'[m] = (IF s = PyNone THEN 0 ELSE s.val)
         /\ calls'[m] = <<>>
         /\ ~planInitialized'[m]
         /\ Unresolved(m)'
    ]_vars

\* An unresolved manager of rank 3 that holds the permutation (2, 0, 1) and a
\* stream, and has called nothing of the engine.
C13_Witness ==
  \E m \in Mgr :
    /\ Unresolved(m)
    /\ rank[m] = 3 /\ dim[m] = <<4, 6, 4>> /\ permutation[m] = <<2, 0, 1>>
    /\ stream[m] = PyStream.val
    /\ calls[m] = <<>>
    /\ ret = Outcome("construct", m, Ok)

\* The six enumerators of cuttResult.
KnownResults ==
  { CUTT_SUCCESS, CUTT_INVALID_PLAN, CUTT_INVALID_PARAMETER, CUTT_INVALID_DEVICE,
    CUTT_INTERNAL_ERROR, CUTT_UNDEFINED_ERROR }

\* C14: cuttErrorString returns a text for every value of cuttResult: for
\* each of the six enumerators a text that no other value has, for every
\* other value the text "Unknown error"; and it writes nothing.
C14_DescribeTotal ==
  [][\A code \in cuttResult :
       Describe(code) =>
         /\ ret' .op = "cuttErrorString" /\ ret' .kind = "ok"
         /\ Len(ret' .text) = 1
         /\ code \in KnownResults =>
              \A other \in cuttResult \ {code} : cuttErrorString(other) # ret' .text[1]
         /\ code \notin KnownResults => ret' .text[1] = "Unknown error"
         /\ code = CUTT_SUCCESS => ret' .text[1] = "Success"
         /\ UNCHANGED <<cuttInitialized, initCalls, pc, nextHandle, life, rank, dim,
                        permutation, stream, plan, initStatus, planInitialized, calls>>
    ]_vars

\* cuttErrorString has just returned the text of CUTT_UNDEFINED_ERROR, a
\* manager being there whose cuttPlan the engine answered with a value that
\* is no enumerator.
C14_Witness ==
  /\ ret = Outcome("cuttErrorString", 0, [kind |-> "ok", text |-> <<"Undefined error">>])
  /\ \E m \in Mgr : initStatus[m] = Written(CUTT_OUT_OF_RANGE)

\* The planning calls in the engine log of a manager.
PlanningCalls(log) == {k \in 1..Len(log) : log[k].op \in {"plan", "planMeasure"}}

\* C15: whenever a manager calls cuttExecute, it is resolved, its initStatus
\* is CUTT_SUCCESS, it has made one planning call, which the engine answered
\* with CUTT_SUCCESS before this call, and the handle passed is the one that
\* planning call wrote.
C15_ExecuteOnlyWhenPlanned ==
  [][\A m \in Mgr :
       NumCalls(calls'[m], "execute") > NumCalls(calls[m], "execute") =>
         LET log == calls'[m]
             c == log[Len(log)]
         IN
         /\ c.op = "execute"
         /\ Resolved(m)'
         /\ initStatus'[m] = Written(CUTT_SUCCESS)
         /\ c.handle = plan'[m]
         /\ Cardinality(PlanningCalls(log)) = 1
         /\ \A k \in PlanningCalls(log) :
              /\ k < Len(log)
              /\ log[k].status = CUTT_SUCCESS
              /\ log[k].handle = c.handle
    ]_vars

\* The first execute of a manager has planned and then called cuttExecute
\* with the new handle, which the engine answered with a value that is no
\* enumerator.
C15_Witness ==
  \E m \in Mgr :
    /\ Resolved(m)
    /\ Len(calls[m]) = 2
    /\ calls[m][1].op = "plan" /\ calls[m][1].status = CUTT_SUCCESS
    /\ calls[m][2].op = "execute" /\ calls[m][2].handle = calls[m][1].handle
    /\ calls[m][2].status = CUTT_OUT_OF_RANGE
    /\ ret = Outcome("execute", m, Throw("invalid_argument", <<"cuTT error: ", "Unknown error">>))

\* C16: once the planning call of a manager has been answered with a code
\* other than CUTT_SUCCESS, every execute on it with a valid buffer pair
\* throws an error that contains the text of that code, calls nothing of
\* the engine and leaves the members as they were, so the same holds for the
\* execute after it.
C16_PlanFailureSticky ==
  [][\A m \in Mgr, i \in InputBuffers, o \in OutputBuffers, a \in Coefficients,
        b \in Coefficients :
       ( /\ life[m] = "live" /\ planInitialized[m]
         /\ \E k \in PlanningCalls(calls[m]) : calls[m][k].status # CUTT_SUCCESS
         /\ ValidPair(i, o)
         /\ Execute(m, i, o, a, b) ) =>
         LET k == CHOOSE k \in PlanningCalls(calls[m]) : TRUE
             code == calls[m][k].status
         IN
         /\ initStatus[m] = Written(code)
         /\ ret' .op = "execute" /\ ret' .mgr = m /\ IsError(ret')
         /\ ret' .text = <<"cuTT error: ", cuttErrorString(code)>>
         /\ calls' = calls
         /\ plan' = plan
         /\ initStatus' = initStatus
         /\ planInitialized' = planInitialized
         /\ life' = life
    ]_vars

\* A manager whose cuttPlan was answered with CUTT_INVALID_DEVICE and on
\* which an execute has thrown the error of that code, the plan call being
\* the only call it has made.
C16_Witness ==
  \E m \in Mgr :
    /\ Resolved(m)
    /\ initStatus[m] = Written(CUTT_INVALID_DEVICE)
    /\ Len(calls[m]) = 1 /\ calls[m][1].op = "plan"
    /\ calls[m][1].status = CUTT_INVALID_DEVICE
    /\ ret = Outcome("execute", m,
                     Throw("invalid_argument",
                           <<"cuTT error: ",
                             "Execution tried on device different than where plan was created">>))

\* C17: with several threads inside execute() on one manager at the same
\* time, the manager calls cuttPlan at most once, and every cuttExecute call
\* is passed the handle that this cuttPlan call, answered CUTT_SUCCESS, had
\* written before.
C17_PlanDoesNotRace ==
  \A m \in Mgr :
    /\ Cardinality(PlanningCalls(calls[m])) <= 1
    /\ NumCalls(calls[m], "plan") = (IF planInitialized[m] THEN 1 ELSE 0)
    /\ \A k \in 1..Len(calls[m]) :
         calls[m][k].op = "execute" =>
           \E j \in 1..(k - 1) :
             /\ calls[m][j].op = "plan"
             /\ calls[m][j].status = CUTT_SUCCESS
             /\ calls[m][j].handle = calls[m][k].handle
    /\ \A t \in Mgr : (m = First /\ pc[t] = "planned") => plan[m] # Indeterminate

\* Two threads are inside execute() on the same manager, both past the
\* planning block and before cuttExecute; the manager has planned once.
C17_Witness ==
  \E t1 \in Mgr, t2 \in Mgr :
    /\ t1 # t2
    /\ pc[t1] = "planned" /\ pc[t2] = "planned"
    /\ calls[First] = <<EngineCall("plan", Written(1), 4, 0, 0, <<>>, <<>>, CUTT_SUCCESS)>>
    /\ plan[First] = Written(1)

StreamError == "Stream argument must be a pycuda.driver.stream, got: "

\* C18: a constructor that throws has called neither cuttPlan nor
\* cuttPlanMeasure nor cuttDestroy and leaves no object: nothing is ever
\* executed or released for it.  A stream argument that is neither None nor
\* a stream makes the first constructor throw a parameter error; None never
\* does, in either constructor, and the manager made with it is on stream 0.
C18_FailedConstructionLeavesNothing ==
  [][\A m \in Mgr :
       /\ (ret' .op = "construct" /\ ret' .mgr = m /\ IsError(ret') /\ life[m] = "none") =>
            /\ life'[m] = "failed"
            /\ calls'[m] = <<>>
            /\ ~planInitialized'[m]
            /\ nextHandle' = nextHandle
       /\ life[m] = "failed" => (life'[m] = "failed" /\ calls'[m] = <<>>)
       /\ (life[m] = "none" /\ life'[m] # "none") =>
            \A q \in RequestInputs, s \in StreamInputs :
              Create(m, q.rank, q.dim, q.permutation, s) =>
                /\ s.type \notin {"NoneType", "Stream"} =>
                     /\ ret' .kind = "invalid_argument" /\ ret' .text[1] = StreamError
                     /\ life'[m] = "failed"
                /\ s = PyNone =>
                     (ret' = Outcome("construct", m, Ok) /\ life'[m] = "live" /\ stream'[m] = 0)
       /\ (life[m] = "none" /\ life'[m] # "none") =>
            \A q \in RequestInputs, s \in StreamInputs, i \in InputBuffers,
               o \in OutputBuffers, a \in CoefficientPtrs, b \in CoefficientPtrs :
              CreateMeasured(m, q.rank, q.dim, q.permutation, s, i, o, a, b) =>
                /\ IsError(ret') => (life'[m] = "failed" /\ calls'[m] = <<>>)
                /\ (s = PyNone /\ IsError(ret')) => ret' .text[1] # StreamError
    ]_vars

\* The first constructor has thrown the parameter error of the stream
\* argument: no manager is there and nothing of the engine but
\* cuttInitialize was called.
C18_Witness ==
  \E m \in Mgr :
    /\ life[m] = "failed"
    /\ ret = Outcome("construct", m, Throw("invalid_argument", <<StreamError, "int">>))
    /\ calls[m] = <<>>
    /\ initCalls = 1

====
